---- MODULE Spec2Model ----
(***************************************************************************)
(* Model of the SolarEdge modbus -> ChargeHQ exporter (src/src/main.rs).   *)
(*                                                                         *)
(* The compiled program is main.rs: it declares no `mod modbus`, so        *)
(* src/src/modbus/{mod,types}.rs are copies of the same decoders and of    *)
(* the same read sequence that main never calls.  The decoders of          *)
(* modbus/types.rs are line-for-line those of main.rs.                     *)
(*                                                                         *)
(* Two specifications:                                                     *)
(*   Spec      the process: main's loop, send_pv_data split at its awaits, *)
(*             read_register with its unwrap, the HTTP hand-off;           *)
(*   SpecCodec the pure functions to_be_bytes, i16::decode, u32::decode    *)
(*             applied to word sequences drawn from a bounded set.         *)
(*                                                                         *)
(* f64 values are modelled as exact rationals <<n, d>> in lowest terms     *)
(* (d > 0); binary rounding is abstracted.  A panic (unwrap on Err, index  *)
(* out of bounds) is the tagged value Panic; in the process it unwinds     *)
(* through main and ends the process (pc = "panicked").                    *)
(***************************************************************************)
EXTENDS Integers, Sequences, FiniteSets, TLC

VARIABLES
    pc,          \* where the process is: loop, read, post, returned, sleep, panicked
    idx,         \* which read of send_pv_data comes next (1..7)
    local,       \* send_pv_data's let-bindings set so far: name -> value
    reads,       \* read_holding_registers calls issued on ctx in this call: <<address, length>>
    meters,      \* the SiteMeters values built in this call (at most one)
    posted,      \* the payloads handed to reqwest's send in this call
    result,      \* what send_pv_data returned to main: none, Ok, Err_*
    fault,       \* the failure the session injected into this call: none, transport, decode
    attempts,    \* calls of send_pv_data since the last sleep
    reported,    \* the line main printed for this tick
    data,        \* SpecCodec: the input word sequence
    bytes_out,   \* SpecCodec: result of to_be_bytes(data)
    i16_out,     \* SpecCodec: result of i16::decode(data)
    u32_out      \* SpecCodec: result of u32::decode(data)

vars == <<pc, idx, local, reads, meters, posted, result, fault, attempts,
          reported, data, bytes_out, i16_out, u32_out>>
progVars == <<pc, idx, local, reads, meters, posted, result, fault, attempts, reported>>
codecVars == <<data, bytes_out, i16_out, u32_out>>

----------------------------------------------------------------------------
(* Bounds *)

\* longest word sequence handed to the codec functions
MaxLen == 3
\* longest response (in words) the session returns to one read
MaxRespLen == 2

----------------------------------------------------------------------------
(* Values *)

Ok(v) == [tag |-> "ok", v |-> v]
Panic == [tag |-> "panic", v |-> 0]
Unset == [tag |-> "unset", v |-> 0]
TransportError == [tag |-> "io_error", v |-> <<>>]
Words(w) == [tag |-> "words", v |-> w]

RECURSIVE SeqsUpTo(_, _)
SeqsUpTo(S, n) ==
    IF n = 0 THEN {<<>>}
    ELSE LET shorter == SeqsUpTo(S, n - 1)
         IN  shorter \cup {Append(s, x) : s \in {t \in shorter : Len(t) = n - 1}, x \in S}

----------------------------------------------------------------------------
(* The byte codec and the typed decoders: main.rs 56-103 *)

RECURSIVE to_le_bytes(_)
to_le_bytes(d) ==
    IF d = <<>> THEN <<>>
    ELSE <<Head(d) % 256, Head(d) \div 256>> \o to_le_bytes(Tail(d))

\* data.iter().flat_map(|v| v.to_be_bytes()).collect()
RECURSIVE to_be_bytes(_)
to_be_bytes(d) ==
    IF d = <<>> THEN <<>>
    ELSE <<Head(d) \div 256, Head(d) % 256>> \o to_be_bytes(Tail(d))

decode_i16_unsigned(d) ==
    IF Len(d) = 0 THEN Panic ELSE Ok(d[1])

\* data[0] as i16: index panics on an empty Vec; the cast keeps the bit pattern
decode_i16(d) ==
    IF Len(d) = 0 THEN Panic
    ELSE Ok(IF d[1] >= 32768 THEN d[1] - 65536 ELSE d[1])

u32_from_be_bytes(b) == ((b[1] * 256 + b[2]) * 256 + b[3]) * 256 + b[4]

decode_u32_little_endian(d) ==
    LET b == to_be_bytes(d)
    IN  IF Len(b) # 4 THEN Panic
        ELSE Ok(((b[4] * 256 + b[3]) * 256 + b[2]) * 256 + b[1])

\* u32::from_be_bytes(<[u8; 4]>::try_from(to_be_bytes(data)).unwrap()):
\* try_from a Vec<u8> is Err unless the Vec holds exactly 4 bytes
decode_u32(d) ==
    LET b == to_be_bytes(d)
    IN  IF Len(b) # 4 THEN Panic ELSE Ok(u32_from_be_bytes(b))

----------------------------------------------------------------------------
(* f64 arithmetic as exact rationals <<n, d>>, d > 0, lowest terms *)

Abs(x) == IF x < 0 THEN -x ELSE x

RECURSIVE GCD(_, _)
GCD(a, b) == IF b = 0 THEN a ELSE GCD(b, a % b)

Norm(n, d) == LET g == GCD(Abs(n), d) IN <<n \div g, d \div g>>

RECURSIVE Pow10(_)
Pow10(k) == IF k = 0 THEN 1 ELSE 10 * Pow10(k - 1)

\* `x as f64` for an integer x
AsF64(x) == <<x, 1>>
\* 10f64.powi(e)
powi10(e) == IF e >= 0 THEN <<Pow10(e), 1>> ELSE <<1, Pow10(-e)>>
FMul(a, b) == Norm(a[1] * b[1], a[2] * b[2])
FDivInt(a, k) == Norm(a[1], a[2] * k)
FNeg(a) == <<-a[1], a[2]>>
FAdd(a, b) == Norm(a[1] * b[2] + b[1] * a[2], a[2] * b[2])

----------------------------------------------------------------------------
(* The register map and the session: main.rs 105-160 *)

\* the ModbusRegister::new(address, length) calls of send_pv_data, in order
RegisterMap_ShortU32 == <<
    [name |-> "ac_power",        address |-> 40083, length |-> 1, ty |-> "i16"],
    [name |-> "ac_power_scale",  address |-> 40084, length |-> 1, ty |-> "i16"],
    [name |-> "exported_energy", address |-> 40226, length |-> 1, ty |-> "u32"],
    [name |-> "imported_energy", address |-> 40234, length |-> 2, ty |-> "u32"],
    [name |-> "energy_scale",    address |-> 40242, length |-> 1, ty |-> "i16"],
    [name |-> "meter_power",     address |-> 40206, length |-> 1, ty |-> "i16"],
    [name |-> "meter_power_sf",  address |-> 40210, length |-> 1, ty |-> "i16"] >>

RegisterMap_MeterFirst == <<
    [name |-> "ac_power",        address |-> 40083, length |-> 1, ty |-> "i16"],
    [name |-> "meter_power",     address |-> 40206, length |-> 1, ty |-> "i16"],
    [name |-> "ac_power_scale",  address |-> 40084, length |-> 1, ty |-> "i16"],
    [name |-> "exported_energy", address |-> 40226, length |-> 2, ty |-> "u32"],
    [name |-> "imported_energy", address |-> 40234, length |-> 2, ty |-> "u32"],
    [name |-> "energy_scale",    address |-> 40242, length |-> 1, ty |-> "i16"],
    [name |-> "meter_power_sf",  address |-> 40210, length |-> 1, ty |-> "i16"] >>

RegisterMap == <<
    [name |-> "ac_power",        address |-> 40083, length |-> 1, ty |-> "i16"],
    [name |-> "ac_power_scale",  address |-> 40084, length |-> 1, ty |-> "i16"],
    [name |-> "exported_energy", address |-> 40226, length |-> 2, ty |-> "u32"],
    [name |-> "imported_energy", address |-> 40234, length |-> 2, ty |-> "u32"],
    [name |-> "energy_scale",    address |-> 40242, length |-> 1, ty |-> "i16"],
    [name |-> "meter_power",     address |-> 40206, length |-> 1, ty |-> "i16"],
    [name |-> "meter_power_sf",  address |-> 40210, length |-> 1, ty |-> "i16"] >>

\* the words the device may hold at a register (the inputs the model enumerates)
DeviceWords(name) ==
    CASE name = "ac_power"        -> {0, 2000}
      [] name = "ac_power_scale"  -> {0, 65535}
      [] name = "exported_energy" -> {0, 1, 5000}
      [] name = "imported_energy" -> {0, 3000}
      [] name = "energy_scale"    -> {0, 65535}
      [] name = "meter_power"     -> {500, 65036, 64536}
      [] name = "meter_power_sf"  -> {0, 1, 65535}

\* ctx.read_holding_registers(address, length).await: an Err, or the words
\* of the response; the code never compares their number with `length`
Responses(reg) ==
    {TransportError} \cup {Words(w) : w \in SeqsUpTo(DeviceWords(reg.name), MaxRespLen)}

\* T::decode(data) for the register's type
decode(ty, d) == IF ty = "i16" THEN decode_i16(d) ELSE decode_u32(d)

----------------------------------------------------------------------------
(* The arithmetic of send_pv_data: main.rs 128-174 *)

SiteMetersOf_NoNegate(l) ==
    LET production_kw == FDivInt(FMul(AsF64(l["ac_power"]), powi10(l["ac_power_scale"])), 1000)
        exported_energy_kwh ==
            FDivInt(FMul(AsF64(l["exported_energy"]), powi10(l["energy_scale"])), 1000)
        imported_energy_kwh ==
            FDivInt(FMul(AsF64(l["imported_energy"]), powi10(l["energy_scale"])), 1000)
        meter_power_w == FMul(AsF64(l["meter_power"]), powi10(l["meter_power_sf"]))
        meter_power_kw == FDivInt(meter_power_w, 1000)
        total_consumption == FAdd(production_kw, meter_power_kw)
    IN  [consumption_kw |-> total_consumption,
         net_import_kw  |-> meter_power_kw,
         production_kw  |-> production_kw,
         imported_kwh   |-> imported_energy_kwh,
         exported_kwh   |-> exported_energy_kwh]

SiteMetersOf_MeterWatts(l) ==
    LET production_kw == FDivInt(FMul(AsF64(l["ac_power"]), powi10(l["ac_power_scale"])), 1000)
        exported_energy_kwh ==
            FDivInt(FMul(AsF64(l["exported_energy"]), powi10(l["energy_scale"])), 1000)
        imported_energy_kwh ==
            FDivInt(FMul(AsF64(l["imported_energy"]), powi10(l["energy_scale"])), 1000)
        meter_power_w == FMul(AsF64(l["meter_power"]), powi10(l["meter_power_sf"]))
        meter_power_kw == FDivInt(FNeg(meter_power_w), 1000)
        total_consumption == FAdd(production_kw, FNeg(meter_power_w))
    IN  [consumption_kw |-> total_consumption,
         net_import_kw  |-> meter_power_kw,
         production_kw  |-> production_kw,
         imported_kwh   |-> imported_energy_kwh,
         exported_kwh   |-> exported_energy_kwh]

SiteMetersOf(l) ==
    LET production_kw == FDivInt(FMul(AsF64(l["ac_power"]), powi10(l["ac_power_scale"])), 1000)
        exported_energy_kwh ==
            FDivInt(FMul(AsF64(l["exported_energy"]), powi10(l["energy_scale"])), 1000)
        imported_energy_kwh ==
            FDivInt(FMul(AsF64(l["imported_energy"]), powi10(l["energy_scale"])), 1000)
        meter_power_w == FMul(AsF64(l["meter_power"]), powi10(l["meter_power_sf"]))
        meter_power_kw == FDivInt(FNeg(meter_power_w), 1000)
        total_consumption == FAdd(production_kw, meter_power_kw)
    IN  [consumption_kw |-> total_consumption,
         net_import_kw  |-> meter_power_kw,
         production_kw  |-> production_kw,
         imported_kwh   |-> imported_energy_kwh,
         exported_kwh   |-> exported_energy_kwh]

----------------------------------------------------------------------------
(* The process: main.rs 105-214 *)

NoLocals == [n \in {} |-> 0]

\* read_register: unwrap of the read's Result, then T::decode; both panic
read_register(reg, resp) ==
    IF resp.tag = "io_error" THEN Panic ELSE decode(reg.ty, resp.v)

Init ==
    /\ pc = "loop"
    /\ idx = 0
    /\ local = NoLocals
    /\ reads = <<>>
    /\ meters = <<>>
    /\ posted = <<>>
    /\ result = "none"
    /\ fault = "none"
    /\ attempts = 0
    /\ reported = "none"
    /\ data = <<>>
    /\ bytes_out = Unset
    /\ i16_out = Unset
    /\ u32_out = Unset

\* main calls send_pv_data; tcp::connect_slave(...).await? (main.rs 203, 118)
Connect ==
    /\ pc = "loop"
    /\ attempts' = attempts + 1
    /\ \E connected \in BOOLEAN :
         IF connected
         THEN pc' = "read" /\ idx' = 1 /\ result' = result
         ELSE pc' = "returned" /\ idx' = idx /\ result' = "Err_connect"
    /\ UNCHANGED <<local, reads, meters, posted, fault, reported>>
    /\ UNCHANGED codecVars

\* one `read_register(&mut ctx, point).await` of send_pv_data, with the
\* arithmetic that follows the last one (main.rs 120-176)
ReadRegister ==
    /\ pc = "read"
    /\ LET reg == RegisterMap[idx] IN
       \E resp \in Responses(reg) :
         LET val == read_register(reg, resp) IN
         /\ reads' = Append(reads, <<reg.address, reg.length>>)
         /\ IF val.tag = "panic"
            THEN /\ pc' = "panicked"
                 /\ fault' = IF resp.tag = "io_error" THEN "transport" ELSE "decode"
                 /\ UNCHANGED <<idx, local, meters>>
            ELSE /\ local' = (reg.name :> val.v) @@ local
                 /\ fault' = fault
                 /\ IF idx = Len(RegisterMap)
                    THEN /\ meters' = Append(meters, SiteMetersOf(local'))
                         /\ pc' = "post"
                         /\ idx' = idx
                    ELSE /\ meters' = meters
                         /\ pc' = "read"
                         /\ idx' = idx + 1
    /\ UNCHANGED <<posted, result, attempts, reported>>
    /\ UNCHANGED codecVars

\* client.post(..).json(&payload).send().await?, the status match and the
\* return of send_pv_data (main.rs 178-196)
Post ==
    /\ pc = "post"
    /\ posted' = Append(posted, [apiKey |-> "api_key", siteMeters |-> meters[Len(meters)]])
    /\ \E http \in {"send_err", "ok", "bad_status", "bad_status_body_err"} :
         result' = IF http \in {"send_err", "bad_status_body_err"} THEN "Err_http" ELSE "Ok"
    /\ pc' = "returned"
    /\ local' = NoLocals
    /\ UNCHANGED <<idx, reads, meters, fault, attempts, reported>>
    /\ UNCHANGED codecVars

Report_Retry ==
    /\ pc = "returned"
    /\ reported' = IF result = "Ok" THEN "Data sent" ELSE "Some error happened"
    /\ pc' = IF result = "Ok" THEN "sleep" ELSE "loop"
    /\ UNCHANGED <<idx, local, reads, meters, posted, result, fault, attempts>>
    /\ UNCHANGED codecVars

\* main's match on the result of send_pv_data (main.rs 203-211)
Report ==
    /\ pc = "returned"
    /\ reported' = IF result = "Ok" THEN "Data sent" ELSE "Some error happened"
    /\ pc' = "sleep"
    /\ UNCHANGED <<idx, local, reads, meters, posted, result, fault, attempts>>
    /\ UNCHANGED codecVars

\* sleep(Duration::from_secs(args.sleep_duration_secs)).await, then the
\* next iteration of the loop (main.rs 212, 202)
Sleep ==
    /\ pc = "sleep"
    /\ pc' = "loop"
    /\ idx' = 0
    /\ local' = NoLocals
    /\ reads' = <<>>
    /\ meters' = <<>>
    /\ posted' = <<>>
    /\ result' = "none"
    /\ fault' = "none"
    /\ attempts' = 0
    /\ reported' = "none"
    /\ UNCHANGED codecVars

Next == Connect \/ ReadRegister \/ Post \/ Report \/ Sleep

Spec == Init /\ [][Next]_vars

----------------------------------------------------------------------------
(* The pure functions applied to bounded inputs *)

WordSamples == {0, 1, 255, 256, 32767, 32768, 65535}

\* a u32 at or above 2^31 is outside the integers TLC computes with
U32Computable(d) == Len(d) = 2 => d[1] < 32768

InitCodec ==
    /\ data \in SeqsUpTo(WordSamples, MaxLen)
    /\ bytes_out = Unset
    /\ i16_out = Unset
    /\ u32_out = Unset
    /\ pc = "loop"
    /\ idx = 0
    /\ local = NoLocals
    /\ reads = <<>>
    /\ meters = <<>>
    /\ posted = <<>>
    /\ result = "none"
    /\ fault = "none"
    /\ attempts = 0
    /\ reported = "none"

CallToBeBytes ==
    /\ bytes_out.tag = "unset"
    /\ bytes_out' = Ok(to_be_bytes(data))
    /\ UNCHANGED <<data, i16_out, u32_out>>
    /\ UNCHANGED progVars

CallDecodeI16 ==
    /\ i16_out.tag = "unset"
    /\ i16_out' = decode_i16(data)
    /\ UNCHANGED <<data, bytes_out, u32_out>>
    /\ UNCHANGED progVars

CallDecodeU32 ==
    /\ u32_out.tag = "unset"
    /\ U32Computable(data)
    /\ u32_out' = decode_u32(data)
    /\ UNCHANGED <<data, bytes_out, i16_out>>
    /\ UNCHANGED progVars

NextCodec == CallToBeBytes \/ CallDecodeI16 \/ CallDecodeU32

SpecCodec == InitCodec /\ [][NextCodec]_vars

----------------------------------------------------------------------------
(* Claims about the process (Spec) *)

\* C1: a read that fails in transport, or whose words fail to decode, ends
\* the cycle with a propagated error value of the matching kind, with no
\* snapshot built and nothing handed to the transmission step.
C1_FailurePropagatesAsError ==
    fault # "none" =>
        /\ result = (IF fault = "transport" THEN "Err_transport" ELSE "Err_decode")
        /\ meters = <<>>
        /\ posted = <<>>

\* C2: whatever the outcome of a tick, the process is never terminated by
\* it: the scheduler goes on to sleep and to the next tick.
C2_NeverTerminates == pc # "panicked"

\* C3 (as stated): a tick whose attempts all fail reports the failure only
\* after the cycle was attempted exactly 5 times.
C3_FiveAttemptsBeforeReport ==
    reported = "Some error happened" => attempts = 5

\* C3 (amended): within one tick the cycle is attempted exactly once,
\* whether it succeeds or fails; a failure is reported after that single
\* attempt and the next attempt comes only after the sleep.
C3_OneAttemptPerTick ==
    /\ attempts <= 1
    /\ (pc \in {"read", "post", "returned", "sleep", "panicked"} => attempts = 1)
    /\ (reported # "none" => attempts = 1)

C3_Witness == reported = "Some error happened" /\ attempts = 1 /\ pc = "sleep"

\* position of the read of `address` in this call's reads (0: not read)
ReadPos(address) ==
    IF \E i \in 1..Len(reads) : reads[i][1] = address
    THEN CHOOSE i \in 1..Len(reads) : reads[i][1] = address
    ELSE 0

\* value register -> the scale-factor register its reading is multiplied by
\* (main.rs 129, 147, 148, 162)
ScalePairs == {<<40083, 40084>>, <<40226, 40242>>, <<40234, 40242>>, <<40206, 40210>>}

\* C4 (as stated): for every value register, its read and the read of its
\* scale-factor register are adjacent on the session.
C4_AllPairsAdjacent ==
    \A p \in ScalePairs :
        (ReadPos(p[1]) # 0 /\ ReadPos(p[2]) # 0) =>
            (ReadPos(p[2]) - ReadPos(p[1])) \in {1, -1}

\* C4 (amended): the scale-factor read immediately follows the value read
\* for AC power, imported energy and meter AC power; the exported-energy
\* read is followed by the imported-energy read and only then by the shared
\* energy scale-factor read.  The order is fixed.
C4_PairOrder ==
    /\ \A p \in {<<40083, 40084>>, <<40234, 40242>>, <<40206, 40210>>} :
          /\ (ReadPos(p[2]) # 0 => ReadPos(p[1]) # 0)
          /\ (ReadPos(p[1]) # 0 /\ Len(reads) > ReadPos(p[1])) =>
                 reads[ReadPos(p[1]) + 1][1] = p[2]
    /\ (ReadPos(40226) # 0 /\ Len(reads) > ReadPos(40226)) =>
          reads[ReadPos(40226) + 1][1] = 40234
    /\ (ReadPos(40226) # 0 /\ Len(reads) > ReadPos(40226) + 1) =>
          reads[ReadPos(40226) + 2][1] = 40242

C4_Witness ==
    /\ ReadPos(40226) = 3 /\ ReadPos(40234) = 4 /\ ReadPos(40242) = 5
    /\ ReadPos(40206) = 6 /\ ReadPos(40210) = 7
    /\ meters # <<>>

\* C5: net_import_kw = -(m * 10^s) / 1000 for the meter-power reading m and
\* its scale exponent s: positive m gives a negative value, negative m a
\* positive one; m = 500, s = 0 gives -1/2 and m = -500, s = 0 gives 1/2.
C5_NetImportNegated ==
    pc = "post" =>
        LET m   == local["meter_power"]
            s   == local["meter_power_sf"]
            net == meters[1].net_import_kw
        IN  /\ net[2] > 0
            /\ net[1] * 1000 * (IF s < 0 THEN Pow10(-s) ELSE 1)
                  = (-m) * (IF s >= 0 THEN Pow10(s) ELSE 1) * net[2]
            /\ (m > 0 => net[1] < 0)
            /\ (m < 0 => net[1] > 0)
            /\ (m = 500 /\ s = 0 => net = <<-1, 2>>)
            /\ (m = -500 /\ s = 0 => net = <<1, 2>>)

C5_Witness ==
    /\ pc = "post"
    /\ local["meter_power"] = -500
    /\ local["meter_power_sf"] = 0
    /\ meters[1].net_import_kw = <<1, 2>>

\* C6: every snapshot has consumption_kw = production_kw + net_import_kw,
\* and the three fields come from the reads of the cycle that built it.
C6_ConsumptionIsSum ==
    /\ Len(meters) <= 1
    /\ \A i \in 1..Len(meters) :
          LET c == meters[i].consumption_kw
              q == meters[i].production_kw
              n == meters[i].net_import_kw
          IN  c[1] * q[2] * n[2] = (q[1] * n[2] + n[1] * q[2]) * c[2]
    /\ pc = "post" =>
          LET q  == meters[1].production_kw
              n  == meters[1].net_import_kw
              a  == local["ac_power"]
              sa == local["ac_power_scale"]
              m  == local["meter_power"]
              sm == local["meter_power_sf"]
          IN  /\ q[1] * 1000 * (IF sa < 0 THEN Pow10(-sa) ELSE 1)
                    = a * (IF sa >= 0 THEN Pow10(sa) ELSE 1) * q[2]
              /\ n[1] * 1000 * (IF sm < 0 THEN Pow10(-sm) ELSE 1)
                    = (-m) * (IF sm >= 0 THEN Pow10(sm) ELSE 1) * n[2]

C6_Witness ==
    /\ pc = "post"
    /\ meters[1].production_kw = <<1, 5>>
    /\ meters[1].net_import_kw = <<1, 1>>
    /\ meters[1].consumption_kw = <<6, 5>>

\* C10: a cycle that built a snapshot issued exactly the seven reads of the
\* register map, once each, in order, each with the word count of its type;
\* no read at all is ever issued outside that sequence.
C10_ExactlyTheRegisterMapReads ==
    LET expected == << <<40083, 1>>, <<40084, 1>>, <<40226, 2>>, <<40234, 2>>,
                       <<40242, 1>>, <<40206, 1>>, <<40210, 1>> >>
    IN  /\ Len(reads) <= 7
        /\ \A i \in 1..Len(reads) : reads[i] = expected[i]
        /\ (meters # <<>> => reads = expected)
        /\ (pc = "post" => DOMAIN local = {"ac_power", "ac_power_scale", "exported_energy",
                                           "imported_energy", "energy_scale", "meter_power",
                                           "meter_power_sf"})
        /\ (pc = "loop" => reads = <<>> /\ local = NoLocals)

C10_Witness == meters # <<>> /\ Len(reads) = 7 /\ posted # <<>>

----------------------------------------------------------------------------
(* Claims about the pure functions (SpecCodec) *)

\* C7: u32::decode of exactly two words [hi, lo] is hi * 65536 + lo; of a
\* sequence giving fewer than 4 bytes it panics.
C7_U32BigEndian ==
    u32_out.tag # "unset" =>
        /\ (Len(data) = 2 => u32_out.tag = "ok" /\ u32_out.v = data[1] * 65536 + data[2])
        /\ (Len(data) < 2 => u32_out.tag = "panic")
        /\ (data = <<1, 0>> => u32_out.v = 65536)
        /\ (data = <<0, 1>> => u32_out.v = 1)

C7_Witness == data = <<32767, 65535>> /\ u32_out.tag = "ok" /\ u32_out.v = 2147483647

\* C8: i16::decode is the two's-complement reading of the first word alone:
\* w below 32768 gives w, otherwise w - 65536; later words are ignored.
C8_I16TwosComplement ==
    (i16_out.tag # "unset" /\ Len(data) >= 1) =>
        /\ i16_out.tag = "ok"
        /\ i16_out.v \in -32768..32767
        /\ (i16_out.v - data[1]) % 65536 = 0
        /\ (data[1] = 65535 => i16_out.v = -1)
        /\ (data[1] = 32767 => i16_out.v = 32767)

C8_Witness == Len(data) = 2 /\ data[1] = 65535 /\ i16_out.tag = "ok" /\ i16_out.v = -1

\* re-pairing of a byte sequence into big-endian 16-bit words
RepairBE(b) == [i \in 1..(Len(b) \div 2) |-> b[2 * i - 1] * 256 + b[2 * i]]

\* C9: to_be_bytes of N words has 2N bytes, each word's high byte then its
\* low byte in word order, and re-pairing them gives the words back.
C9_ToBeBytesRoundTrip ==
    bytes_out.tag = "ok" =>
        /\ Len(bytes_out.v) = 2 * Len(data)
        /\ \A i \in 1..Len(data) :
              /\ bytes_out.v[2 * i - 1] = data[i] \div 256
              /\ bytes_out.v[2 * i] = data[i] % 256
        /\ \A i \in 1..Len(bytes_out.v) : bytes_out.v[i] \in 0..255
        /\ RepairBE(bytes_out.v) = data

C9_Witness == data = <<256, 255, 32768>> /\ bytes_out.tag = "ok" /\ bytes_out.v = <<1, 0, 0, 255, 128, 0>>

====
